---- MODULE Spec2Model ----
(***************************************************************************)
(* Model of the AI input firewall (src/firewall.py, src/firewall_gui.py).   *)
(*                                                                         *)
(* A Python str is modelled as a sequence of one-character strings, so     *)
(* that lower(), upper(), strip(), substring containment and the regular   *)
(* expression are computed character by character, as the code computes    *)
(* them.  A float score is modelled in tenths (1.0 is 10, 0.8 is 8).        *)
(* An Optional value is a sequence of length at most one.                   *)
(***************************************************************************)
EXTENDS Integers, Sequences, FiniteSets, TLC

None == <<>>

Some(x) == <<x>>

(***************************************************************************)
(* Characters and the str methods the firewall uses.                        *)
(***************************************************************************)
LowerLetters ==
  <<"a", "b", "c", "d", "e", "f", "g", "h", "i", "j", "k", "l", "m", "n", "o", "p", "q", "r", "s", "t", "u", "v", "w", "x", "y", "z">>

UpperLetters ==
  <<"A", "B", "C", "D", "E", "F", "G", "H", "I", "J", "K", "L", "M", "N", "O", "P", "Q", "R", "S", "T", "U", "V", "W", "X", "Y", "Z">>

Digits == {"0", "1", "2", "3", "4", "5", "6", "7", "8", "9"}

Range(s) == {s[i] : i \in 1..Len(s)}

\* \s of the re module and the characters str.strip() removes
IsSpace(c) == c \in {" ", "\t", "\n"}

\* \w of the re module
IsWordChar(c) == c \in Range(LowerLetters) \cup Range(UpperLetters) \cup Digits \cup {"_"}

LowerChar(c) ==
  IF \E i \in 1..26 : UpperLetters[i] = c
  THEN LowerLetters[CHOOSE i \in 1..26 : UpperLetters[i] = c]
  ELSE c

UpperChar(c) ==
  IF \E i \in 1..26 : LowerLetters[i] = c
  THEN UpperLetters[CHOOSE i \in 1..26 : LowerLetters[i] = c]
  ELSE c

\* str.lower()
Lower(s) == [i \in 1..Len(s) |-> LowerChar(s[i])]

\* str.upper()
Upper(s) == [i \in 1..Len(s) |-> UpperChar(s[i])]

\* str.strip(): drop the leading and the trailing whitespace
Strip(s) ==
  IF \A i \in 1..Len(s) : IsSpace(s[i])
  THEN <<>>
  ELSE LET first == CHOOSE i \in 1..Len(s) :
                      /\ ~IsSpace(s[i])
                      /\ \A j \in 1..(i - 1) : IsSpace(s[j])
           last  == CHOOSE i \in 1..Len(s) :
                      /\ ~IsSpace(s[i])
                      /\ \A j \in (i + 1)..Len(s) : IsSpace(s[j])
       IN  SubSeq(s, first, last)

\* the Python test  word in s  at offset i (1-based)
OccursAt(word, s, i) ==
  /\ i >= 1
  /\ i + Len(word) - 1 <= Len(s)
  /\ \A j \in 1..Len(word) : s[i + j - 1] = word[j]

\* the Python test  word in s
Contains(s, word) == \E i \in 1..(Len(s) + 1) : OccursAt(word, s, i)

(***************************************************************************)
(* Configuration of the HTTP service (src/firewall.py, lines 13-16).        *)
(***************************************************************************)
BLOCKLIST ==
  { <<"h", "a", "c", "k">>,
    <<"e", "x", "p", "l", "o", "i", "t">>,
    <<"m", "a", "l", "i", "c", "i", "o", "u", "s">>,
    <<"i", "n", "j", "e", "c", "t">>,
    <<"r", "o", "o", "t">> }

\* the alternatives of SQL_INJECTION_REGEX: <<first keyword, second keyword>>,
\* joined by \s+ and enclosed in \b ... \b, compiled with re.IGNORECASE
SQL_INJECTION_REGEX ==
  { << <<"D", "R", "O", "P">>, <<"T", "A", "B", "L", "E">> >>,
    << <<"U", "N", "I", "O", "N">>, <<"S", "E", "L", "E", "C", "T">> >>,
    << <<"I", "N", "S", "E", "R", "T">>, <<"I", "N", "T", "O">> >>,
    << <<"D", "E", "L", "E", "T", "E">>, <<"F", "R", "O", "M">> >> }

\* maxsize of the lru_cache around classify_input_with_ollama (1000 in the
\* source, scaled down so that the cache fills and evicts)
CACHE_SIZE == 2

\* CONFIDENCE_THRESHOLD = 0.8, in tenths
CONFIDENCE_THRESHOLD == 8

\* the score 1.0, in tenths
ScoreOne == 10

\* the score 0.0
ScoreZero == 0

SAFE == <<"S", "A", "F", "E">>

UNSAFE == <<"U", "N", "S", "A", "F", "E">>

REFUSAL == "This prompt is unsafe, can't answer."

(***************************************************************************)
(* The request texts explored, and what the external model may answer.      *)
(***************************************************************************)
PassingTexts ==
  { <<"h", "i">>,
    <<"H", "i">>,
    <<"h", "a", " ", "c", "k">>,
    <<"x", "d", "r", "o", "p", " ", "t", "a", "b", "l", "e">> }

KeywordTexts ==
  { <<"h", "a", "c", "k">>,
    <<"H", "a", "C", "k", " ", "i", "t">>,
    <<"u", "p", "r", "o", "o", "t", "e", "d">>,
    <<"s", "q", "l", " ", "I", "n", "j", "e", "c", "t">> }

PatternTexts ==
  { <<"D", "R", "O", "P", " ", "T", "A", "B", "L", "E", " ", "u", "s", "e", "r", "s">>,
    <<"d", "r", "o", "p", "\t", " ", "t", "a", "b", "l", "e">>,
    <<"a", ";", "D", "e", "l", "e", "t", "e", " ", "F", "r", "o", "m", " ", "t">>,
    <<"u", "n", "i", "o", "n", " ", " ", "s", "e", "l", "e", "c", "t">>,
    <<"I", "n", "s", "e", "r", "t", " ", "I", "n", "t", "o", " ", "x">> }

MixedTexts ==
  { <<"h", "a", "c", "k", ";", " ", "D", "R", "O", "P", " ", "T", "A", "B", "L", "E">> }

Texts == PassingTexts \cup KeywordTexts \cup PatternTexts \cup MixedTexts

\* the texts handed to the local classifier: a plain one and one with a
\* denylist term
LocalTexts ==
  { <<"h", "i">>,
    <<"h", "a", "c", "k">> }

\* what classification_chain.run can return
ClassifierReplies ==
  { <<"S", "A", "F", "E">>,
    <<" ", "U", "n", "s", "a", "f", "e", "\n">>,
    <<"m", "a", "y", "b", "e">> }

\* what response_chain.run can return
GeneratorReplies ==
  { <<" ", "H", "e", "l", "l", "o", "!", " ", "\n">>,
    <<" ", " ">> }

\* the outcome of one external call: it raises, or it returns a str
Raised == [raised |-> TRUE, text |-> <<>>]

Returned(s) == [raised |-> FALSE, text |-> s]

ClassifierOutcomes == {Raised} \cup {Returned(s) : s \in ClassifierReplies}

GeneratorOutcomes == {Raised} \cup {Returned(s) : s \in GeneratorReplies}

(***************************************************************************)
(* RuleFilter: rule_based_checks.                                           *)
(***************************************************************************)
\* the denylist test without text.lower()
BlocklistHitCaseSensitive(text) ==
  \E word \in BLOCKLIST : Contains(text, word)

\* any(word in text_lower for word in BLOCKLIST)
BlocklistHit(text) ==
  LET text_lower == Lower(text)
  IN  \E word \in BLOCKLIST : Contains(text_lower, word)

\* \b at the gap before position i of s (between s[i-1] and s[i])
WordBoundary(s, i) ==
  LET before == i > 1 /\ i - 1 <= Len(s) /\ IsWordChar(s[i - 1])
      after  == i >= 1 /\ i <= Len(s) /\ IsWordChar(s[i])
  IN  before # after

\* one alternative of the pattern matches at position i with k whitespace
\* characters between its two keywords
AlternativeMatchesAt(alt, text, i, k) ==
  LET folded == Lower(text)
      second == i + Len(alt[1]) + k
      end    == second + Len(alt[2])
  IN  /\ WordBoundary(text, i)
      /\ OccursAt(Lower(alt[1]), folded, i)
      /\ k >= 1
      /\ \A j \in (i + Len(alt[1]))..(second - 1) : j <= Len(text) /\ IsSpace(text[j])
      /\ OccursAt(Lower(alt[2]), folded, second)
      /\ WordBoundary(text, end)

\* SQL_INJECTION_REGEX.search(text)
SqlInjectionSearch(text) ==
  \E alt \in SQL_INJECTION_REGEX : \E i \in 1..Len(text) : \E k \in 1..Len(text) :
    AlternativeMatchesAt(alt, text, i, k)

rule_based_checks(text) ==
  IF BlocklistHit(text)
  THEN Some("Blocked due to prohibited keyword.")
  ELSE IF SqlInjectionSearch(text)
       THEN Some("SQL injection attempt detected.")
       ELSE None

\* rule_based_checks over the request texts, computed once
RuleReason == [t \in Texts |-> rule_based_checks(t)]

(***************************************************************************)
(* Classifier: the body of classify_input_with_ollama and the lru_cache     *)
(* around it.  The cache is a sequence of entries, least recently used      *)
(* first.                                                                   *)
(***************************************************************************)
\* the body with the score of UNSAFE given to every reply
ClassifyBodyScoresEveryReply(outcome) ==
  IF outcome.raised
  THEN [label |-> UNSAFE, score |-> ScoreOne]
  ELSE [label |-> Upper(Strip(outcome.text)), score |-> ScoreOne]

\* the function body: what is returned (and memoized) for one outcome of
\* classification_chain.run
ClassifyBody(outcome) ==
  IF outcome.raised
  THEN [label |-> UNSAFE, score |-> ScoreOne]
  ELSE LET classification == Upper(Strip(outcome.text))
       IN  [label |-> classification,
            score |-> IF classification = UNSAFE THEN ScoreOne ELSE ScoreZero]

CacheKeys(c) == {c[i].key : i \in 1..Len(c)}

\* a lookup that takes the oldest entry whatever the key
CacheIndexIgnoresKey(c, key) == 1

CacheIndex(c, key) == CHOOSE i \in 1..Len(c) : c[i].key = key

CacheValue(c, key) == c[CacheIndex(c, key)].value

Without(c, i) == SubSeq(c, 1, i - 1) \o SubSeq(c, i + 1, Len(c))

\* a hit that leaves the entry where it is (first in, first out)
CacheTouchKeepsOrder(c, key) == c

\* lru_cache on a hit: the entry becomes the most recently used
CacheTouch(c, key) ==
  LET i == CacheIndex(c, key)
  IN  Without(c, i) \o <<c[i]>>

\* a miss whose result is not stored
CachePutForgets(c, key, value) == c

\* a miss that stores without ever evicting
CachePutNeverEvicts(c, key, value) ==
  c \o <<[key |-> key, value |-> value]>>

\* lru_cache on a miss, after the call returned: store the result, and when
\* the cache is full drop the least recently used entry
CachePut(c, key, value) ==
  IF CACHE_SIZE = 0
  THEN c
  ELSE IF Len(c) >= CACHE_SIZE
       THEN Tail(c) \o <<[key |-> key, value |-> value]>>
       ELSE c \o <<[key |-> key, value |-> value]>>

\* the key lru_cache drops when key is stored
CacheEvicts(c, key) ==
  IF CACHE_SIZE > 0 /\ Len(c) >= CACHE_SIZE THEN Some(c[1].key) ELSE None

(***************************************************************************)
(* ResponseGenerator: generate_ollama_response.                             *)
(***************************************************************************)
NO_RESPONSE == "No response generated."

GENERATION_ERROR == "Error generating response."

\* a response is a fixed message of the code or the stripped reply
Fixed(msg) == [fixed |-> TRUE, msg |-> msg, text |-> <<>>]

Generated(s) == [fixed |-> FALSE, msg |-> "", text |-> s]

generate_ollama_response(outcome) ==
  IF outcome.raised
  THEN Fixed(GENERATION_ERROR)
  ELSE IF Strip(outcome.text) # <<>>
       THEN Generated(Strip(outcome.text))
       ELSE Fixed(NO_RESPONSE)

(***************************************************************************)
(* State.                                                                   *)
(*   cache    the lru_cache of classify_input_with_ollama                   *)
(*   recency  every key ever looked up in the cache, ordered by its last    *)
(*            lookup (hit or insertion), oldest first                       *)
(*   last     the most recent call: its input, what the external model did, *)
(*            how often it was called, and what the call returned           *)
(***************************************************************************)
VARIABLES cache, recency, last

\* the service as uvicorn runs it, one coroutine at a time:
\*   pending    requests received whose handler has not started
\*   running    the handler the event loop is executing, None when idle
\*   trace      the steps of the evaluation started most recently
\*   submitted  number of requests received
\*   classified what the latest call of the function body returned, per text
VARIABLES pending, running, trace, submitted, classified

\* The desktop front ends (FirewallGUI and its worker thread):
\*   worker   self.worker: None, or the worker thread's text, position and flags
\*   signals  the signals the worker has emitted and the GUI thread has not
\*            handled yet, in order (queued connections between threads)
\*   ui       the widgets' state the handlers set
\*   guiBusy  the GUI thread is blocked inside QThread.wait()
VARIABLES worker, signals, ui, guiBusy

pipelineVars == <<cache, recency, last>>

serverVars == <<pending, running, trace, submitted, classified>>

guiVars == <<worker, signals, ui, guiBusy>>

vars == <<cache, recency, last, pending, running, trace, submitted, classified,
          worker, signals, ui, guiBusy>>

NoDecision == [status |-> "none", reason |-> None, score |-> None, response |-> Fixed("")]

NoCall ==
  [ op                |-> "none",
    text              |-> <<>>,
    decision          |-> NoDecision,
    ai_result         |-> None,
    hit               |-> FALSE,
    evicted           |-> None,
    classifierOutcome |-> None,
    generatorOutcome  |-> None,
    emitted           |-> <<>> ]

\* calls of classification_chain.run made by the most recent call
ClassifierCalls(call) == Len(call.classifierOutcome)

\* calls of response_chain.run made by the most recent call
GeneratorCalls(call) == Len(call.generatorOutcome)

Init ==
  /\ cache = <<>>
  /\ recency = <<>>
  /\ last = NoCall
  /\ pending = {}
  /\ running = None
  /\ trace = <<>>
  /\ submitted = 0
  /\ classified = <<>>
  /\ worker = None
  /\ signals = <<>>
  /\ ui = [enabled |-> TRUE, progress |-> FALSE, warned |-> FALSE]
  /\ guiBusy = FALSE

\* key was looked up: it becomes the most recent one
Accessed(r, key) == SelectSeq(r, LAMBDA k : k # key) \o <<key>>

(***************************************************************************)
(* DecisionPipeline: is_input_safe, as called by the /check-input endpoint. *)
(***************************************************************************)
\* lines 98-104: a rule matched
BlockedByRule(reason) ==
  [status |-> "blocked", reason |-> reason, score |-> None, response |-> Fixed(REFUSAL)]

\* a classifier block that answers with its reason, as the local GUI does
BlockedByClassifierTellsReason(ai_result) ==
  [status |-> "blocked", reason |-> Some("Ollama classified as unsafe"),
   score |-> Some(ai_result.score), response |-> Fixed("Ollama classified as unsafe")]

\* lines 108-114: the classifier's verdict is trusted
BlockedByClassifier(ai_result) ==
  [status |-> "blocked", reason |-> Some("Ollama classified as unsafe"),
   score |-> Some(ai_result.score), response |-> Fixed(REFUSAL)]

\* lines 117-122
Allowed(ai_result, response) ==
  [status |-> "allowed", reason |-> None, score |-> Some(ai_result.score),
   response |-> response]

\* the threshold test with the comparison turned around
ClassifierBlocksBelowThreshold(ai_result) ==
  ai_result.label = UNSAFE /\ ai_result.score < CONFIDENCE_THRESHOLD

\* line 108
ClassifierBlocks(ai_result) ==
  ai_result.label = UNSAFE /\ ai_result.score > CONFIDENCE_THRESHOLD

\* the outcomes of response_chain.run is_input_safe can see: the generator
\* is called only when the classifier does not block
GeneratorChoices(ai_result) ==
  IF ClassifierBlocks(ai_result)
  THEN {None}
  ELSE {Some(o) : o \in GeneratorOutcomes}

\* a pipeline that blocks when the generator call raised
DecideBlocksOnGeneratorFailure(ai_result, g) ==
  IF ClassifierBlocks(ai_result) \/ (g # None /\ g[1].raised)
  THEN BlockedByClassifier(ai_result)
  ELSE Allowed(ai_result, generate_ollama_response(g[1]))

\* lines 108-122: the decision once ai_result is known; g is the outcome of
\* response_chain.run, None when the generator is not called
Decide(ai_result, g) ==
  IF ClassifierBlocks(ai_result)
  THEN BlockedByClassifier(ai_result)
  ELSE Allowed(ai_result, generate_ollama_response(g[1]))

EvaluateRuleBlocked(text) ==
  /\ RuleReason[text] # None
  /\ last' = [NoCall EXCEPT !.op = "is_input_safe",
                            !.text = text,
                            !.decision = BlockedByRule(RuleReason[text])]
  /\ UNCHANGED <<cache, recency>>

EvaluateCacheHit(text) ==
  /\ RuleReason[text] = None
  /\ text \in CacheKeys(cache)
  /\ LET ai_result == CacheValue(cache, text)
     IN  \E g \in GeneratorChoices(ai_result) :
           last' = [NoCall EXCEPT !.op = "is_input_safe",
                                  !.text = text,
                                  !.decision = Decide(ai_result, g),
                                  !.ai_result = Some(ai_result),
                                  !.hit = TRUE,
                                  !.generatorOutcome = g]
  /\ cache' = CacheTouch(cache, text)
  /\ recency' = Accessed(recency, text)

EvaluateCacheMiss(text) ==
  /\ RuleReason[text] = None
  /\ text \notin CacheKeys(cache)
  /\ \E c \in ClassifierOutcomes :
       LET ai_result == ClassifyBody(c)
       IN  /\ \E g \in GeneratorChoices(ai_result) :
                last' = [NoCall EXCEPT !.op = "is_input_safe",
                                       !.text = text,
                                       !.decision = Decide(ai_result, g),
                                       !.ai_result = Some(ai_result),
                                       !.evicted = CacheEvicts(cache, text),
                                       !.classifierOutcome = Some(c),
                                       !.generatorOutcome = g]
           /\ cache' = CachePut(cache, text, ai_result)
  /\ recency' = Accessed(recency, text)

\* POST /check-input with request.text = text
Evaluate(text) ==
  \/ EvaluateRuleBlocked(text)
  \/ EvaluateCacheHit(text)
  \/ EvaluateCacheMiss(text)

(***************************************************************************)
(* LocalProcessWorker.classify_with_ollama (the local GUI variant).         *)
(***************************************************************************)
\* score 0.1 of line 343, in tenths
LocalSafeScore == 1

LocalClassifyBody(outcome) ==
  IF outcome.raised
  THEN [label |-> SAFE, score |-> ScoreZero]
  ELSE [label |-> SAFE, score |-> LocalSafeScore]

LocalClassify(text) ==
  /\ \E c \in ClassifierOutcomes :
       last' = [NoCall EXCEPT !.op = "classify_with_ollama",
                              !.text = text,
                              !.ai_result = Some(LocalClassifyBody(c)),
                              !.classifierOutcome = Some(c),
                              !.emitted = IF c.raised
                                          THEN <<"progress_update", "error">>
                                          ELSE <<"progress_update">>]
  /\ UNCHANGED <<cache, recency>>

Next ==
  /\ \/ \E text \in Texts : Evaluate(text)
     \/ \E text \in LocalTexts : LocalClassify(text)
  /\ UNCHANGED serverVars
  /\ UNCHANGED guiVars

Spec == Init /\ [][Next]_vars

(***************************************************************************)
(* The /check-input endpoint step by step.  check_input is an async def     *)
(* that calls is_input_safe without awaiting anything, so the event loop    *)
(* runs one handler from its first line to its return, the blocking calls   *)
(* of classification_chain.run and response_chain.run included; requests    *)
(* that arrive meanwhile wait.  No timeout is set on either call.           *)
(***************************************************************************)
\* requests received in one behaviour
MaxRequests == 4

ServerTexts ==
  { <<" ", "\t">>,
    <<"i", "g", "n", "o", "r", "e", " ", "t", "h", "e", " ", "r", "u", "l", "e", "s">>,
    <<"H", "a", "c", "k">> }

ServerRuleReason == [t \in ServerTexts |-> rule_based_checks(t)]

RuleStep(reason) == [step |-> "rule_based_checks", reason |-> reason, ai_result |-> None]

LookupStep(ai_result) == [step |-> "cache hit", reason |-> None, ai_result |-> Some(ai_result)]

ClassifierCallStep == [step |-> "classification_chain.run", reason |-> None, ai_result |-> None]

ClassifierReturnStep(ai_result) ==
  [step |-> "classified", reason |-> None, ai_result |-> Some(ai_result)]

GeneratorCallStep == [step |-> "response_chain.run", reason |-> None, ai_result |-> None]

Handler(text, phase, ai_result, hit, evicted, c) ==
  [text |-> text, phase |-> phase, ai_result |-> ai_result, hit |-> hit,
   evicted |-> evicted, classifierOutcome |-> c]

\* what is_input_safe returns, recorded like a call of Evaluate
Completed(h, g) ==
  [NoCall EXCEPT !.op = "is_input_safe",
                 !.text = h.text,
                 !.decision = Decide(h.ai_result[1], g),
                 !.ai_result = h.ai_result,
                 !.hit = h.hit,
                 !.evicted = h.evicted,
                 !.classifierOutcome = h.classifierOutcome,
                 !.generatorOutcome = g]

\* classified with the result for text replaced: a sequence of
\* <<text, result>> pairs, one per text
Recorded(log, text, ai_result) ==
  SelectSeq(log, LAMBDA p : p[1] # text) \o << <<text, ai_result>> >>

\* the result recorded for text, None when it was never classified
ResultFor(log, text) ==
  IF \E i \in 1..Len(log) : log[i][1] = text
  THEN Some(log[CHOOSE i \in 1..Len(log) : log[i][1] = text][2])
  ELSE None

\* a request arrives while its text is not in flight
ServerReceive(text) ==
  /\ submitted < MaxRequests
  /\ text \notin pending
  /\ running # None => running[1].text # text
  /\ pending' = pending \cup {text}
  /\ submitted' = submitted + 1
  /\ UNCHANGED <<cache, recency, last, running, trace, classified>>
  /\ UNCHANGED guiVars

\* the handler starts and a rule matches: it returns at once
ServerStartRuleBlocked(text) ==
  /\ running = None
  /\ text \in pending
  /\ ServerRuleReason[text] # None
  /\ pending' = pending \ {text}
  /\ trace' = <<RuleStep(ServerRuleReason[text])>>
  /\ last' = [NoCall EXCEPT !.op = "is_input_safe",
                            !.text = text,
                            !.decision = BlockedByRule(ServerRuleReason[text])]
  /\ UNCHANGED <<cache, recency, running, submitted, classified>>
  /\ UNCHANGED guiVars

\* the handler starts, no rule matches and the classification is cached
ServerStartCacheHit(text) ==
  /\ running = None
  /\ text \in pending
  /\ ServerRuleReason[text] = None
  /\ text \in CacheKeys(cache)
  /\ pending' = pending \ {text}
  /\ cache' = CacheTouch(cache, text)
  /\ recency' = Accessed(recency, text)
  /\ LET ai_result == CacheValue(cache, text)
         h == Handler(text, "generating", Some(ai_result), TRUE, None, None)
     IN  IF ClassifierBlocks(ai_result)
         THEN /\ running' = None
              /\ last' = Completed(h, None)
              /\ trace' = <<RuleStep(None), LookupStep(ai_result)>>
         ELSE /\ running' = Some(h)
              /\ last' = last
              /\ trace' = <<RuleStep(None), LookupStep(ai_result), GeneratorCallStep>>
  /\ UNCHANGED <<submitted, classified>>
  /\ UNCHANGED guiVars

\* the handler starts, no rule matches and classification_chain.run is called
ServerStartCacheMiss(text) ==
  /\ running = None
  /\ text \in pending
  /\ ServerRuleReason[text] = None
  /\ text \notin CacheKeys(cache)
  /\ pending' = pending \ {text}
  /\ running' = Some(Handler(text, "classifying", None, FALSE, None, None))
  /\ trace' = <<RuleStep(None), ClassifierCallStep>>
  /\ UNCHANGED <<cache, recency, last, submitted, classified>>
  /\ UNCHANGED guiVars

\* classification_chain.run returns or raises; lru_cache stores the result
ServerClassifierReturns(c) ==
  /\ running # None
  /\ running[1].phase = "classifying"
  /\ LET text == running[1].text
         ai_result == ClassifyBody(c)
         h == Handler(text, "generating", Some(ai_result), FALSE,
                      CacheEvicts(cache, text), Some(c))
     IN  /\ cache' = CachePut(cache, text, ai_result)
         /\ recency' = Accessed(recency, text)
         /\ classified' = Recorded(classified, text, ai_result)
         /\ IF ClassifierBlocks(ai_result)
            THEN /\ running' = None
                 /\ last' = Completed(h, None)
                 /\ trace' = Append(trace, ClassifierReturnStep(ai_result))
            ELSE /\ running' = Some(h)
                 /\ last' = last
                 /\ trace' = trace \o <<ClassifierReturnStep(ai_result), GeneratorCallStep>>
  /\ UNCHANGED <<pending, submitted>>
  /\ UNCHANGED guiVars

\* response_chain.run returns or raises; the handler returns
ServerGeneratorReturns(g) ==
  /\ running # None
  /\ running[1].phase = "generating"
  /\ running' = None
  /\ last' = Completed(running[1], Some(g))
  /\ UNCHANGED <<cache, recency, pending, trace, submitted, classified>>
  /\ UNCHANGED guiVars

\* the steps the service takes by itself
ServerStart ==
  \E text \in ServerTexts :
    \/ ServerStartRuleBlocked(text)
    \/ ServerStartCacheHit(text)
    \/ ServerStartCacheMiss(text)

\* the steps that need the external model to answer
ExternalReturns ==
  \/ \E c \in ClassifierOutcomes : ServerClassifierReturns(c)
  \/ \E g \in GeneratorOutcomes : ServerGeneratorReturns(g)

NextServer ==
  \/ \E text \in ServerTexts : ServerReceive(text)
  \/ ServerStart
  \/ ExternalReturns

SpecServer == Init /\ [][NextServer]_vars

\* the service keeps running and the external model answers every call
SpecServerLive == SpecServer /\ WF_vars(ServerStart) /\ WF_vars(ExternalReturns)

\* the service keeps running; nothing obliges the external model to answer
SpecServerFair == SpecServer /\ WF_vars(ServerStart)

(***************************************************************************)
(* The local GUI variant (src/firewall.py from line 141): its               *)
(* configuration and LocalProcessWorker.check_malicious.                    *)
(***************************************************************************)
\* BLOCKLIST of the local variant, in list order
GUI_BLOCKLIST ==
  << <<"h", "a", "c", "k">>, <<"e", "x", "p", "l", "o", "i", "t">>, <<"v", "u", "l", "n", "e", "r", "a", "b", "i", "l", "i", "t", "y">>, <<"m", "a", "l", "w", "a", "r", "e">>, <<"v", "i", "r", "u", "s">>,
     <<"b", "a", "c", "k", "d", "o", "o", "r">>, <<"r", "o", "o", "t", "k", "i", "t">>, <<"k", "e", "y", "l", "o", "g", "g", "e", "r">>, <<"p", "h", "i", "s", "h", "i", "n", "g">>, <<"d", "d", "o", "s">>,
     <<"b", "o", "t", "n", "e", "t">>, <<"r", "a", "n", "s", "o", "m", "w", "a", "r", "e">>, <<"t", "r", "o", "j", "a", "n">>, <<"w", "o", "r", "m">>, <<"s", "p", "y", "w", "a", "r", "e">> >>

\* DANGEROUS_PATTERNS, each compiled with (?i): the alternatives of the first
\* group, and those of the second group that follows after  .*?  (none when
\* the pattern has one group)
DANGEROUS_PATTERNS ==
  << [heads |-> << <<"s", "y", "s", "t", "e", "m", ":">>, <<"<", "|", "s", "y", "s", "t", "e", "m", "|">>, <<"a", "d", "m", "i", "n", ":">>, <<"r", "o", "o", "t", ":">> >>,
      tails |-> << >>],
     [heads |-> << <<"i", "g", "n", "o", "r", "e">>, <<"o", "v", "e", "r", "r", "i", "d", "e">>, <<"b", "y", "p", "a", "s", "s">> >>,
      tails |-> << <<"i", "n", "s", "t", "r", "u", "c", "t", "i", "o", "n">>, <<"r", "e", "s", "t", "r", "i", "c", "t", "i", "o", "n">>, <<"r", "u", "l", "e">>, <<"f", "i", "l", "t", "e", "r">> >>],
     [heads |-> << <<"d", "e", "l", "e", "t", "e">>, <<"r", "e", "m", "o", "v", "e">>, <<"d", "r", "o", "p">>, <<"d", "e", "s", "t", "r", "o", "y">> >>,
      tails |-> << <<"f", "i", "l", "e">>, <<"d", "a", "t", "a">>, <<"s", "y", "s", "t", "e", "m">>, <<"d", "a", "t", "a", "b", "a", "s", "e">> >>],
     [heads |-> << <<"e", "x", "e", "c">>, <<"e", "v", "a", "l">>, <<"s", "y", "s", "t", "e", "m">>, <<"c", "o", "m", "m", "a", "n", "d">>, <<"c", "m", "d">>, <<"p", "o", "w", "e", "r", "s", "h", "e", "l", "l">>, <<"b", "a", "s", "h">> >>,
      tails |-> << >>] >>

\* HARMFUL_INTENTS, in dict order
HARMFUL_INTENTS ==
  << [category |-> "malicious",
      keywords |-> << <<"h", "a", "c", "k">>, <<"e", "x", "p", "l", "o", "i", "t">>, <<"a", "t", "t", "a", "c", "k">>, <<"s", "t", "e", "a", "l">>, <<"b", "r", "e", "a", "c", "h">> >>],
     [category |-> "destructive",
      keywords |-> << <<"d", "e", "s", "t", "r", "o", "y">>, <<"d", "e", "l", "e", "t", "e">>, <<"r", "e", "m", "o", "v", "e">>, <<"c", "o", "r", "r", "u", "p", "t">> >>],
     [category |-> "deceptive",
      keywords |-> << <<"b", "y", "p", "a", "s", "s">>, <<"o", "v", "e", "r", "r", "i", "d", "e">>, <<"i", "g", "n", "o", "r", "e">>, <<"t", "r", "i", "c", "k">> >>],
     [category |-> "system",
      keywords |-> << <<"s", "u", "d", "o">>, <<"c", "h", "m", "o", "d">>, <<"r", "m", " ", "-", "r", "f">>, <<"f", "o", "r", "m", "a", "t">> >>] >>

\* the thresholds of check_malicious, in tenths: 0.8 and 0.7
SENTIMENT_LIMIT == 8

INTENT_LIMIT == 7

\* the alternatives of lits that occur in s at position i, letters compared
\* without regard to case
AlternativesAt(lits, s, i) ==
  {a \in 1..Len(lits) : OccursAt(Lower(lits[a]), Lower(s), i)}

Min(set) == CHOOSE x \in set : \A y \in set : x <= y

\* . of the re module: any character but a newline
NoNewline(s, from, to) == \A k \in from..to : s[k] # "\n"

\* where a match of the second group can start when the first group matched
\* with alternative a at position i
TailStarts(p, s, i, a) ==
  {j \in (i + Len(p.heads[a]))..Len(s) :
     /\ AlternativesAt(p.tails, s, j) # {}
     /\ NoNewline(s, i + Len(p.heads[a]), j - 1)}

\* the alternatives of the first group with which the pattern matches at i
HeadsMatchingAt(p, s, i) ==
  {a \in AlternativesAt(p.heads, s, i) : p.tails = << >> \/ TailStarts(p, s, i, a) # {}}

\* pattern.search(text): None, or the text of the leftmost match, taking the
\* first alternative that succeeds and the shortest  .*?
PatternSearch(p, s) ==
  LET starts == {i \in 1..Len(s) : HeadsMatchingAt(p, s, i) # {}}
  IN  IF starts = {}
      THEN None
      ELSE LET i == Min(starts)
               a == Min(HeadsMatchingAt(p, s, i))
           IN  IF p.tails = << >>
               THEN Some(SubSeq(s, i, i + Len(p.heads[a]) - 1))
               ELSE LET j == Min(TailStarts(p, s, i, a))
                        b == Min(AlternativesAt(p.tails, s, j))
                    IN  Some(SubSeq(s, i, j + Len(p.tails[b]) - 1))

\* what sentiment_analyzer(text)[0] can be: it raises, or a label and a score
SentimentOutcomes ==
  { [raised |-> TRUE,  label |-> "",         score |-> 0],
    [raised |-> FALSE, label |-> "NEGATIVE", score |-> 9],
    [raised |-> FALSE, label |-> "POSITIVE", score |-> 9] }

\* analyze_intent: the empty dict when the analysis raised
analyze_intent(text, s) ==
  IF s.raised
  THEN [failed |-> TRUE, sentiment_score |-> 0, intent_scores |-> << >>]
  ELSE [failed |-> FALSE,
        sentiment_score |-> IF s.label = "NEGATIVE" THEN s.score ELSE 0,
        intent_scores |->
          [c \in 1..Len(HARMFUL_INTENTS) |->
             IF \E k \in 1..Len(HARMFUL_INTENTS[c].keywords) :
                  Contains(Lower(text), HARMFUL_INTENTS[c].keywords[k])
             THEN ScoreOne
             ELSE ScoreZero]]

Reason(kind, detail) == [kind |-> kind, detail |-> detail]

\* the reasons check_malicious collects, in its order
BlockedWordReasons(text) ==
  LET blocked_words ==
        SelectSeq(GUI_BLOCKLIST, LAMBDA word : Contains(Lower(text), word))
  IN  IF blocked_words # << >>
      THEN <<Reason("Contains blocked words", blocked_words)>>
      ELSE << >>

RECURSIVE PatternReasons(_, _)
PatternReasons(text, n) ==
  IF n = 0
  THEN << >>
  ELSE PatternReasons(text, n - 1)
       \o (IF PatternSearch(DANGEROUS_PATTERNS[n], text) # None
           THEN <<Reason("Matches dangerous pattern",
                         PatternSearch(DANGEROUS_PATTERNS[n], text)[1])>>
           ELSE << >>)

SentimentReasons(analysis) ==
  IF ~analysis.failed /\ analysis.sentiment_score > SENTIMENT_LIMIT
  THEN <<Reason("High negative sentiment score", <<analysis.sentiment_score>>)>>
  ELSE << >>

RECURSIVE IntentReasons(_, _)
IntentReasons(analysis, n) ==
  IF n = 0 \/ analysis.failed
  THEN << >>
  ELSE IntentReasons(analysis, n - 1)
       \o (IF analysis.intent_scores[n] > INTENT_LIMIT
           THEN <<Reason("High intent score", <<HARMFUL_INTENTS[n].category>>)>>
           ELSE << >>)

check_malicious(text, s) ==
  LET analysis == analyze_intent(text, s)
      reasons == BlockedWordReasons(text)
                 \o PatternReasons(text, Len(DANGEROUS_PATTERNS))
                 \o SentimentReasons(analysis)
                 \o IntentReasons(analysis, Len(HARMFUL_INTENTS))
  IN  IF reasons # << >>
      THEN [is_malicious |-> TRUE, reasons |-> reasons]
      ELSE [is_malicious |-> FALSE,
            reasons |-> <<Reason("Input appears safe - no harmful content detected", << >>)>>]

(***************************************************************************)
(* The local GUI variant as threads: FirewallGUI on the GUI thread and one  *)
(* LocalProcessWorker thread per submitted prompt.  A signal the worker     *)
(* emits is queued and handled later by the GUI thread.  processing_time is *)
(* left out of the decisions.                                               *)
(***************************************************************************)
\* what the user can have typed into input_field
Prompts == { <<" ", "\t">> } \cup LocalTexts

BLOCKED_PREFIX == "Input blocked for the following reasons:\n"

GENERATION_ERROR_PREFIX == "Error generating response: "

\* a response made of a literal and a text that depends on the input
Composed(msg, detail) == [fixed |-> FALSE, msg |-> msg, text |-> <<>>, detail |-> detail]

Signal(sig, message, decision) == [sig |-> sig, message |-> message, decision |-> decision]

\* LocalProcessWorker.__init__
NewLocalWorker(text) ==
  [text |-> text, phase |-> "started", is_running |-> TRUE, emitted |-> << >>]

\* the names of the signals in a sequence of signals
SignalNames(sigs) == [i \in 1..Len(sigs) |-> sigs[i].sig]

\* the dict run() emits for a malicious input
LocalBlocked(reasons) ==
  [status |-> "blocked", reason |-> Some(reasons), score |-> Some(ScoreOne),
   response |-> Composed(BLOCKED_PREFIX, reasons)]

\* LocalProcessWorker.generate_response: the reply as it is, or the error text
generate_response(g) ==
  IF g.raised THEN Composed(GENERATION_ERROR_PREFIX, <<"exception">>) ELSE Generated(g.text)

\* the dict run() emits for an input that passed check_malicious
LocalAllowed(reasons, g) ==
  [status |-> "allowed", reason |-> Some(reasons), score |-> Some(ScoreZero),
   response |-> generate_response(g)]

\* FirewallGUI.check_input on a blank prompt: a warning, nothing else
CheckInputBlank(prompt) ==
  /\ Strip(prompt) = <<>>
  /\ ui' = [ui EXCEPT !.warned = TRUE]
  /\ UNCHANGED <<worker, signals, last>>

\* FirewallGUI.check_input: the widgets are disabled and a worker is started
CheckInputStart(prompt) ==
  /\ Strip(prompt) # <<>>
  /\ ui' = [enabled |-> FALSE, progress |-> TRUE, warned |-> FALSE]
  /\ worker' = Some(NewLocalWorker(prompt))
  /\ UNCHANGED <<signals, last>>

\* the user submits: only while the submit button is enabled and the GUI
\* thread is handling events
LocalCheckInput(prompt) ==
  /\ submitted < MaxRequests
  /\ ui.enabled
  /\ ~guiBusy
  /\ submitted' = submitted + 1
  /\ \/ CheckInputBlank(prompt)
     \/ CheckInputStart(prompt)
  /\ UNCHANGED <<cache, recency, pending, running, trace, classified, guiBusy>>

\* LocalProcessWorker.run up to the call of the model: the analysis, and the
\* blocked decision when check_malicious finds a reason
WorkerAnalyze(s) ==
  /\ worker # None
  /\ worker[1].phase = "started"
  /\ LET text == worker[1].text
         check_result == check_malicious(text, s)
         emitted == <<Signal("progress_update", "Analyzing input...", NoDecision)>>
                    \o (IF s.raised
                        THEN <<Signal("error", "Analysis error", NoDecision)>>
                        ELSE << >>)
     IN  IF check_result.is_malicious
         THEN /\ signals' = signals \o emitted
                   \o <<Signal("finished", "", LocalBlocked(check_result.reasons))>>
              /\ worker' = Some([worker[1] EXCEPT
                                   !.phase = "finished",
                                   !.emitted = SignalNames(emitted) \o <<"finished">>])
              /\ last' = [NoCall EXCEPT !.op = "LocalProcessWorker.run",
                                        !.text = text,
                                        !.decision = LocalBlocked(check_result.reasons),
                                        !.emitted = SignalNames(emitted) \o <<"finished">>]
         ELSE /\ signals' = signals \o emitted
                   \o <<Signal("progress_update", "Generating response...", NoDecision)>>
              /\ worker' = Some([worker[1] EXCEPT
                                   !.phase = "generating",
                                   !.emitted = SignalNames(emitted) \o <<"progress_update">>])
              /\ UNCHANGED last
  /\ UNCHANGED <<cache, recency, ui, guiBusy>>
  /\ UNCHANGED serverVars

\* llm.invoke returns or raises inside generate_response, and run() emits the
\* allowed decision and ends
WorkerGenerateReturns(g) ==
  /\ worker # None
  /\ worker[1].phase = "generating"
  /\ LET decision ==
           LocalAllowed(
             <<Reason("Input appears safe - no harmful content detected", << >>)>>, g)
     IN  /\ signals' = signals \o <<Signal("finished", "", decision)>>
         /\ last' = [NoCall EXCEPT !.op = "LocalProcessWorker.run",
                                   !.text = worker[1].text,
                                   !.decision = decision,
                                   !.generatorOutcome = Some(g),
                                   !.emitted = worker[1].emitted \o <<"finished">>]
  /\ worker' = Some([worker[1] EXCEPT !.phase = "finished",
                                      !.emitted = worker[1].emitted \o <<"finished">>])
  /\ UNCHANGED <<cache, recency, ui, guiBusy>>
  /\ UNCHANGED serverVars

\* the re-enabling at the end of FirewallGUI.cleanup_request
Reenabled == [ui EXCEPT !.enabled = TRUE, !.progress = FALSE]

\* FirewallGUI.handle_progress
HandleProgress ==
  /\ Head(signals).sig = "progress_update"
  /\ UNCHANGED <<worker, ui, guiBusy>>

\* FirewallGUI.handle_response and handle_error, both ending in
\* cleanup_request: worker.stop() clears the flag and waits for the thread
HandleFinishedOrError ==
  /\ Head(signals).sig \in {"finished", "error"}
  /\ IF worker = None
     THEN /\ ui' = Reenabled
          /\ UNCHANGED <<worker, guiBusy>>
     ELSE IF worker[1].phase = "finished"
          THEN /\ worker' = None
               /\ ui' = Reenabled
               /\ UNCHANGED guiBusy
          ELSE /\ worker' = Some([worker[1] EXCEPT !.is_running = FALSE])
               /\ guiBusy' = TRUE
               /\ UNCHANGED ui

\* the GUI thread takes the next queued signal
GuiHandleSignal ==
  /\ ~guiBusy
  /\ signals # << >>
  /\ signals' = Tail(signals)
  /\ \/ HandleProgress
     \/ HandleFinishedOrError
  /\ UNCHANGED <<cache, recency, last>>
  /\ UNCHANGED serverVars

\* QThread.wait() returns once run() has ended; cleanup_request goes on
GuiWaitReturns ==
  /\ guiBusy
  /\ worker # None
  /\ worker[1].phase = "finished"
  /\ worker' = None
  /\ ui' = Reenabled
  /\ guiBusy' = FALSE
  /\ UNCHANGED <<cache, recency, last, signals>>
  /\ UNCHANGED serverVars

\* the steps the worker thread takes without the model
WorkerSteps == \E s \in SentimentOutcomes : WorkerAnalyze(s)

\* the steps of the GUI thread
GuiSteps == GuiHandleSignal \/ GuiWaitReturns

\* the step that needs the model to answer
ModelReturns == \E g \in GeneratorOutcomes : WorkerGenerateReturns(g)

NextLocalGui ==
  \/ \E prompt \in Prompts : LocalCheckInput(prompt)
  \/ WorkerSteps
  \/ GuiSteps
  \/ ModelReturns

SpecLocalGui == Init /\ [][NextLocalGui]_vars

\* both threads are scheduled; nothing is assumed about the model
SpecLocalGuiFair == SpecLocalGui /\ WF_vars(WorkerSteps) /\ WF_vars(GuiSteps)

(***************************************************************************)
(* The GUI client of the HTTP service (src/firewall_gui.py): FirewallGUI on *)
(* the GUI thread and one RequestWorker thread per submitted prompt.  The   *)
(* worker posts through a requests session whose adapter retries as the     *)
(* Retry object says; backoff delays and timeouts take no part but for the  *)
(* failures they end in.                                                    *)
(***************************************************************************)
\* Retry(total=3, ...)
RETRY_TOTAL == 3

\* Retry(status_forcelist=[500, 502, 503, 504])
STATUS_FORCELIST == {500, 502, 503, 504}

\* Retry is built without allowed_methods, which leaves urllib3's default
ALLOWED_METHODS == {"HEAD", "GET", "PUT", "DELETE", "OPTIONS", "TRACE"}

\* session.post
METHOD == "POST"

HTTP_OK == 200

HTTP_UNPROCESSABLE == 422

HTTP_SERVER_ERROR == 500

HTTP_UNAVAILABLE == 503

\* what one attempt of the adapter to send the request can end in: no
\* connection, no connection within 10 s, no answer within 120 s, or a
\* response, whose body is a decision (body) or no JSON at all (None)
Failure(kind) == [kind |-> kind, status |-> 0, body |-> None]

Response(status, body) == [kind |-> "response", status |-> status, body |-> body]

AttemptOutcomes ==
  { Failure("connection error"), Failure("connect timeout"), Failure("read timeout"),
    Response(HTTP_OK, Some(BlockedByRule(rule_based_checks(<<"h", "a", "c", "k">>)))),
    Response(HTTP_OK, None),
    Response(HTTP_UNPROCESSABLE, None),
    Response(HTTP_SERVER_ERROR, None),
    Response(HTTP_UNAVAILABLE, None) }

\* the verdict turned around for client errors: any error status is retried
RetryableAnyErrorStatus(o) ==
  \/ o.kind \in {"connection error", "connect timeout"}
  \/ o.kind = "response" /\ o.status >= 400

\* urllib3's Retry: an error while connecting is retried for every method; a
\* read error, or a response whose status is in the forcelist, only for a
\* method in allowed_methods
Retryable(o) ==
  \/ o.kind \in {"connection error", "connect timeout"}
  \/ o.kind = "read timeout" /\ METHOD \in ALLOWED_METHODS
  \/ o.kind = "response" /\ METHOD \in ALLOWED_METHODS /\ o.status \in STATUS_FORCELIST

\* Retry.increment and is_exhausted: retried while fewer than total retries
\* have been made
ShouldRetry(o, retries) == Retryable(o) /\ retries < RETRY_TOTAL

\* RequestWorker.__init__
NewRequestWorker(text) == [text |-> text, phase |-> "started", attempts |-> << >>]

\* the signals of the end of run() with the terminal signal put first
TerminalSignalsProgressLast(o) ==
  IF o.kind = "response"
  THEN (IF o.status < 400 /\ o.body # None
        THEN <<Signal("finished", "", o.body[1])>>
        ELSE <<Signal("error", "Error", NoDecision)>>)
       \o <<Signal("progress_update", "Processing response...", NoDecision)>>
  ELSE <<Signal("error", "Error", NoDecision)>>

\* what run() emits once session.post is over: after a response the second
\* progress message, then finished with the parsed body or error; after a
\* failure error alone
TerminalSignals(o) ==
  IF o.kind = "response"
  THEN <<Signal("progress_update", "Processing response...", NoDecision)>>
       \o (IF o.status < 400 /\ o.body # None
           THEN <<Signal("finished", "", o.body[1])>>
           ELSE <<Signal("error", "Error", NoDecision)>>)
  ELSE IF o.kind \in {"connect timeout", "read timeout"}
       THEN <<Signal("error", "Request timed out after 2 minutes.", NoDecision)>>
       ELSE <<Signal("error", "Error", NoDecision)>>

\* FirewallGUI.check_input of the client on a blank prompt: it returns
ClientCheckInputBlank(prompt) ==
  /\ Strip(prompt) = <<>>
  /\ UNCHANGED <<worker, ui>>

\* FirewallGUI.check_input of the client: a RequestWorker is started
ClientCheckInputStart(prompt) ==
  /\ Strip(prompt) # <<>>
  /\ ui' = [ui EXCEPT !.enabled = FALSE, !.progress = TRUE]
  /\ worker' = Some(NewRequestWorker(prompt))

ClientCheckInput(prompt) ==
  /\ submitted < MaxRequests
  /\ ui.enabled
  /\ submitted' = submitted + 1
  /\ \/ ClientCheckInputBlank(prompt)
     \/ ClientCheckInputStart(prompt)
  /\ UNCHANGED <<cache, recency, last, pending, running, trace, classified,
                 signals, guiBusy>>

\* RequestWorker.run up to session.post
RequestWorkerSend ==
  /\ worker # None
  /\ worker[1].phase = "started"
  /\ signals' = signals \o <<Signal("progress_update", "Sending request to LLM...", NoDecision)>>
  /\ worker' = Some([worker[1] EXCEPT !.phase = "posting"])
  /\ UNCHANGED <<cache, recency, last, ui, guiBusy>>
  /\ UNCHANGED serverVars

RECURSIVE Posts(_)
Posts(n) == IF n = 0 THEN << >> ELSE <<"post">> \o Posts(n - 1)

\* a run that closes the session only at the end of the try block
RunTraceClosesOnSuccessOnly(n, o) ==
  <<"progress_update">> \o Posts(n)
  \o (IF o.kind = "response" /\ o.status < 400 /\ o.body # None
      THEN <<"progress_update", "finished", "session.close">>
      ELSE <<"error">>)

\* what a run of n attempts does, in order, when the last attempt ends in o:
\* the first progress message, the attempts, the signals of the end, and the
\* session.close() of the finally clause
RunTrace(n, o) ==
  <<"progress_update">> \o Posts(n) \o SignalNames(TerminalSignals(o)) \o <<"session.close">>

\* one attempt inside session.post ends: the adapter tries again, or post
\* returns or raises and run() emits its signals and closes the session
RequestWorkerAttempt(o) ==
  /\ worker # None
  /\ worker[1].phase = "posting"
  /\ LET attempts == Append(worker[1].attempts, o)
     IN  IF ShouldRetry(o, Len(worker[1].attempts))
         THEN /\ worker' = Some([worker[1] EXCEPT !.attempts = attempts])
              /\ UNCHANGED <<signals, last>>
         ELSE /\ worker' = Some([worker[1] EXCEPT !.attempts = attempts,
                                                  !.phase = "finished"])
              /\ signals' = signals \o TerminalSignals(o)
              /\ last' = [NoCall EXCEPT
                            !.op = "RequestWorker.run",
                            !.text = worker[1].text,
                            !.decision = IF o.body # None /\ o.status < 400
                                         THEN o.body[1]
                                         ELSE NoDecision,
                            !.emitted = RunTrace(Len(attempts), o)]
  /\ UNCHANGED <<cache, recency, ui, guiBusy>>
  /\ UNCHANGED serverVars

\* the client's handle_progress, and handle_response and handle_error with
\* the cleanup_request they end in
ClientHandleSignal ==
  /\ signals # << >>
  /\ signals' = Tail(signals)
  /\ IF Head(signals).sig = "progress_update"
     THEN UNCHANGED <<worker, ui>>
     ELSE /\ ui' = Reenabled
          /\ worker' = None
  /\ UNCHANGED <<cache, recency, last, guiBusy>>
  /\ UNCHANGED serverVars

NextClient ==
  \/ \E prompt \in Prompts : ClientCheckInput(prompt)
  \/ RequestWorkerSend
  \/ \E o \in AttemptOutcomes : RequestWorkerAttempt(o)
  \/ ClientHandleSignal

SpecClient == Init /\ [][NextClient]_vars

(***************************************************************************)
(* Properties.                                                              *)
(***************************************************************************)
Evaluated == last.op = "is_input_safe"

\* the evaluation got past the rule filter and asked the classifier
PassedRules == Evaluated /\ last.ai_result # None

ClassifierRaised == ClassifierCalls(last) = 1 /\ last.classifierOutcome[1].raised

ClassifierReturned == ClassifierCalls(last) = 1 /\ ~last.classifierOutcome[1].raised

FailSafe == [label |-> UNSAFE, score |-> ScoreOne]

\* text contains a denylist term, letters compared without regard to case
ContainsDenylistTerm(text) ==
  \E word \in BLOCKLIST : \E i \in 1..Len(text) :
    /\ i + Len(word) - 1 <= Len(text)
    /\ \A j \in 1..Len(word) : LowerChar(text[i + j - 1]) = LowerChar(word[j])

\* C1: an evaluation of a text that contains a denylist term (in any letter
\* case) or matches the dangerous pattern returns BLOCKED, and during it
\* neither the external classifier nor the external generator is called.
C1_RuleBlockWithoutExternalCalls ==
  (Evaluated /\ (ContainsDenylistTerm(last.text) \/ SqlInjectionSearch(last.text)))
    => /\ last.decision.status = "blocked"
       /\ ClassifierCalls(last) = 0
       /\ GeneratorCalls(last) = 0

\* a text that holds a denylist term only in mixed case was evaluated
C1_Witness ==
  /\ Evaluated
  /\ last.decision.status = "blocked"
  /\ ContainsDenylistTerm(last.text)
  /\ ~\E word \in BLOCKLIST : Contains(last.text, word)

\* C2: whenever the external classification call raises, the classification
\* result is UNSAFE with confidence 1.0, in every classifier implementation,
\* and is_input_safe returns BLOCKED with confidence 1.0.
C2_FailedClassifierIsUnsafe ==
  ClassifierRaised
    => /\ last.ai_result = Some(FailSafe)
       /\ Evaluated => /\ last.decision.status = "blocked"
                       /\ last.decision.score = Some(ScoreOne)

\* C3: a fail-safe result produced because the external classifier call
\* raised is not stored: after it the cache holds no entry for that text.
C3_FailureIsNotCached ==
  (Evaluated /\ ClassifierRaised) => last.text \notin CacheKeys(cache)

\* C4: for a text that passes the rule filter, a classification UNSAFE with
\* confidence above CONFIDENCE_THRESHOLD gives BLOCKED; a classification SAFE,
\* or UNSAFE at or below the threshold, calls the generator and gives ALLOWED.
C4_ThresholdGate ==
  PassedRules =>
    LET ai == last.ai_result[1]
    IN  /\ (ai.label = UNSAFE /\ ai.score > CONFIDENCE_THRESHOLD)
             => last.decision.status = "blocked"
        /\ (ai.label = SAFE \/ (ai.label = UNSAFE /\ ai.score <= CONFIDENCE_THRESHOLD))
             => /\ GeneratorCalls(last) = 1
                /\ last.decision.status = "allowed"

\* the classifier answered UNSAFE for a rule-passing text
C4_Witness ==
  /\ PassedRules
  /\ ClassifierReturned
  /\ last.ai_result[1].label = UNSAFE
  /\ last.decision.status = "blocked"

\* the reply is neither SAFE nor UNSAFE after trimming and upper-casing
Malformed(reply) == Upper(Strip(reply)) \notin {SAFE, UNSAFE}

\* C5: when the external classifier call returns a malformed reply, the
\* classification is the fail-safe UNSAFE with confidence 1.0 and
\* is_input_safe returns BLOCKED.
C5_MalformedReplyFailsClosed ==
  (Evaluated /\ ClassifierReturned /\ Malformed(last.classifierOutcome[1].text))
    => /\ last.ai_result = Some(FailSafe)
       /\ last.decision.status = "blocked"

\* C6: every BLOCKED decision of is_input_safe, by a rule or by the
\* classifier, carries the one fixed refusal message, and the generator was
\* not called to produce it.
C6_BlockedCarriesFixedRefusal ==
  (Evaluated /\ last.decision.status = "blocked")
    => /\ last.decision.response = Fixed(REFUSAL)
       /\ GeneratorCalls(last) = 0

\* a decision blocked by the classifier, served from the cache
C6_Witness ==
  /\ PassedRules
  /\ last.hit
  /\ last.decision.status = "blocked"
  /\ last.decision.reason = Some("Ollama classified as unsafe")

\* C7: when the generator call raises after the rule filter and the
\* classifier let the text through, is_input_safe still returns ALLOWED,
\* with the placeholder error string as its response.
C7_GeneratorFailureStaysAllowed ==
  (Evaluated /\ GeneratorCalls(last) = 1 /\ last.generatorOutcome[1].raised)
    => /\ last.decision.status = "allowed"
       /\ last.decision.response = Fixed(GENERATION_ERROR)

\* the generator raised for a text the classifier called SAFE
C7_Witness ==
  /\ PassedRules
  /\ last.ai_result[1].label = SAFE
  /\ GeneratorCalls(last) = 1
  /\ last.generatorOutcome[1].raised

\* C8: when a rule-passing text that is not yet cached is evaluated twice in
\* a row and no classifier call raises, the two evaluations together call
\* the external classifier exactly once and return the same status and the
\* same confidence.
C8_CacheIdempotence ==
  [][ ( /\ PassedRules
        /\ ClassifierReturned
        /\ last'.op = "is_input_safe"
        /\ last'.text = last.text
        /\ ClassifierCalls(last') = 1 => ~last'.classifierOutcome[1].raised )
      => /\ ClassifierCalls(last) + ClassifierCalls(last') = 1
         /\ last'.decision.status = last.decision.status
         /\ last'.decision.score = last.decision.score ]_vars

\* the only text ever looked up was evaluated again and served from the cache
C8_Witness ==
  /\ PassedRules
  /\ last.hit
  /\ ClassifierCalls(last) = 0
  /\ recency = <<last.text>>

\* C9: the classification cache never holds more than CACHE_SIZE entries.
C9_CacheBounded ==
  /\ Len(cache) <= CACHE_SIZE
  /\ Cardinality(CacheKeys(cache)) = Len(cache)

\* the cache is full and the last evaluation evicted an entry
C9_Witness ==
  /\ Len(cache) = CACHE_SIZE
  /\ last.evicted # None

\* the n keys looked up most recently, oldest first
RecentKeys(r, n) ==
  IF Len(r) <= n THEN r ELSE SubSeq(r, Len(r) - n + 1, Len(r))

\* C10: an evaluation is served without an external classifier call exactly
\* when its text is among the CACHE_SIZE keys looked up most recently; when
\* a new key is stored in a full cache, the entry evicted is the one whose
\* last lookup (hit or insertion) is oldest among the cached keys, and that
\* key is no longer cached while the other CACHE_SIZE keys are.
C10_LruEviction ==
  [][ (last'.op = "is_input_safe" /\ last'.ai_result # None)
      => /\ (ClassifierCalls(last') = 0)
              <=> (last'.text \in Range(RecentKeys(recency, CACHE_SIZE)))
         /\ last'.evicted # None
              => /\ Len(recency) >= CACHE_SIZE
                 /\ last'.evicted[1] = RecentKeys(recency, CACHE_SIZE)[1]
                 /\ last'.evicted[1] \notin CacheKeys(cache')
         /\ CacheKeys(cache') = Range(RecentKeys(recency', CACHE_SIZE)) ]_vars

\* a key that is not cached was looked up when the cache was full, and the
\* key looked up longest ago was evicted for it
C10_Witness ==
  /\ PassedRules
  /\ ~last.hit
  /\ last.evicted # None
  /\ Len(recency) = CACHE_SIZE + 1
  /\ Len(cache) = CACHE_SIZE

\* the normalized form of a text: trimmed and case-folded
Normalize(text) == Lower(Strip(text))

\* C11: the cache key is the normalized text: when the cache holds an entry
\* for a text that differs from the evaluated one only in letter case or in
\* surrounding whitespace, the evaluation is served from the cache without an
\* external classification call.
C11_NormalizedCacheKey ==
  [][ ( /\ last'.op = "is_input_safe"
        /\ last'.ai_result # None
        /\ \E key \in CacheKeys(cache) : Normalize(key) = Normalize(last'.text) )
      => ClassifierCalls(last') = 0 ]_vars

\* the texts in flight: received or being handled
InFlight == pending \cup {running[i].text : i \in 1..Len(running)}

\* the decision belongs to the evaluated text: its own rule match, or the
\* classification computed for this very text
OwnDecision ==
  Evaluated /\ last.text \in ServerTexts =>
    IF rule_based_checks(last.text) # None
    THEN /\ last.decision = BlockedByRule(rule_based_checks(last.text))
         /\ last.ai_result = None
    ELSE /\ last.ai_result # None
         /\ last.ai_result = ResultFor(classified, last.text)
         /\ ~last.hit => last.ai_result = Some(ClassifyBody(last.classifierOutcome[1]))
         /\ last.decision.status = "blocked"
              <=> /\ last.ai_result[1].label = UNSAFE
                  /\ last.ai_result[1].score > CONFIDENCE_THRESHOLD
         /\ last.decision.score = Some(last.ai_result[1].score)

\* every cache entry holds the classification computed for its own key,
\* under one entry per key and within the capacity
CacheSound ==
  /\ Len(cache) <= CACHE_SIZE
  /\ \A i, j \in 1..Len(cache) : cache[i].key = cache[j].key => i = j
  /\ \A i \in 1..Len(cache) : ResultFor(classified, cache[i].key) = Some(cache[i].value)

\* C13: for concurrent requests with pairwise distinct texts, under every
\* interleaving, every request that was received completes, and every
\* decision is the one its own text's rule match and its own text's
\* classification determine; the shared cache stays sound.
C13_ConcurrentIsolation ==
  /\ [](OwnDecision /\ CacheSound)
  /\ \A text \in ServerTexts :
       (text \in pending) ~> (text \notin InFlight /\ Evaluated /\ last.text = text)

\* two requests were in flight at once and the later one was served from the
\* cache while the cache held another text as well
C13_Witness ==
  /\ Evaluated
  /\ last.hit
  /\ Len(cache) = 2
  /\ pending # {}

\* C14: while a handler waits for the external classifier or generator, a
\* request that was received meanwhile can start.
C14_StalledCallDoesNotBlockOthers ==
  (running # None /\ pending # {}) => ENABLED ServerStart

\* C15: every evaluation that started returns, also when the external model
\* never answers: the service gets out of the wait by itself.
C15_EvaluationReturns ==
  (running # None) ~> (running = None)

StepsOf(name) == {i \in 1..Len(trace) : trace[i].step = name}

\* C20: within one evaluation the classifier is called at most once and only
\* after the rule filter returned no match, and the generator is called at
\* most once and only after the classifier returned a verdict that is not
\* UNSAFE above the threshold, from the cache or from the call.
C20_StrictOrder ==
  /\ Cardinality(StepsOf("classification_chain.run")) <= 1
  /\ Cardinality(StepsOf("response_chain.run")) <= 1
  /\ \A i \in StepsOf("classification_chain.run") :
       \E j \in 1..(i - 1) : trace[j].step = "rule_based_checks" /\ trace[j].reason = None
  /\ \A i \in StepsOf("response_chain.run") :
       /\ \E j \in 1..(i - 1) : trace[j].step = "rule_based_checks" /\ trace[j].reason = None
       /\ \E j \in 1..(i - 1) :
            /\ trace[j].step \in {"classified", "cache hit"}
            /\ ~(trace[j].ai_result[1].label = UNSAFE
                 /\ trace[j].ai_result[1].score > CONFIDENCE_THRESHOLD)
       /\ \A j \in StepsOf("classification_chain.run") :
            j < i /\ \E k \in (j + 1)..(i - 1) : trace[k].step = "classified"
  /\ \A i \in StepsOf("rule_based_checks") : i = 1

\* an evaluation went through all three stages: rules, classifier call,
\* generator call
C20_Witness ==
  /\ Len(trace) = 4
  /\ trace[2].step = "classification_chain.run"
  /\ trace[4].step = "response_chain.run"
  /\ running = None

\* str.strip() leaves nothing: the text is empty or only whitespace
Blank(text) == Strip(text) = << >>

\* C12: at every entry point empty or whitespace-only input is rejected before
\* the pipeline runs: no request handler of the HTTP service and no worker of
\* a GUI ever works on such a text, and no decision is produced for one.
C12_BlankInputRejected ==
  /\ running # None => ~Blank(running[1].text)
  /\ worker # None => ~Blank(worker[1].text)
  /\ last.op \in {"is_input_safe", "LocalProcessWorker.run"} => ~Blank(last.text)

\* the worker has been told to stop while it waits for llm.invoke
StopRequestedWhileWaiting ==
  /\ worker # None
  /\ ~worker[1].is_running
  /\ worker[1].phase = "generating"

\* C16: a worker that is told to stop while it waits for the external call
\* stops waiting, whether or not the external call ever completes.
C16_CancellationObserved ==
  StopRequestedWhileWaiting ~> (worker = None \/ worker[1].phase # "generating")

\* the instruction-bypass pattern of DANGEROUS_PATTERNS matches the text
MatchesBypass(text) == PatternSearch(DANGEROUS_PATTERNS[2], text) # None

\* C18: an evaluation of a text that matches the instruction-bypass pattern
\* ends BLOCKED by a rule, without the classifier having been consulted, so
\* that the classifier's answer or failure cannot change the decision.
C18_BypassBlockedByRule ==
  (Evaluated /\ MatchesBypass(last.text)) =>
     /\ last.decision.status = "blocked"
     /\ last.ai_result = None

\* C19: whichever producer made it, the response of a BLOCKED decision is the
\* one fixed refusal message: a literal, with nothing of the reason in it.
C19_BlockedResponseIsFixed ==
  last.decision.status = "blocked" =>
     /\ last.decision.response.fixed
     /\ last.decision.response.msg = REFUSAL

\* a network failure, or a response with one of the retryable statuses
Transient(o) ==
  \/ o.kind \in {"connection error", "connect timeout", "read timeout"}
  \/ o.kind = "response" /\ o.status \in {500, 502, 503, 504}

\* the attempts of the running request that were followed by another attempt
Retried ==
  IF worker[1].phase = "posting"
  THEN worker[1].attempts
  ELSE SubSeq(worker[1].attempts, 1, Len(worker[1].attempts) - 1)

\* C17: a request is sent again only after an attempt that failed transiently
\* (a network failure or a status of 500, 502, 503, 504), at most 3 times, so
\* that a request is attempted at most 4 times.
C17_RetryOnlyTransientAtMostThree ==
  (worker # None /\ worker[1].phase \in {"posting", "finished"}) =>
     /\ Len(worker[1].attempts) <= 4
     /\ Len(Retried) <= 3
     /\ \A i \in 1..Len(Retried) : Transient(Retried[i])

\* a request given up after the first attempt and three retries
C17_Witness ==
  /\ worker # None
  /\ worker[1].phase = "finished"
  /\ Len(worker[1].attempts) = 4
  /\ last.op = "RequestWorker.run"

\* the rules a reason string of rule_based_checks names
NamesKeywordRule(reason) == reason = Some("Blocked due to prohibited keyword.")

NamesInjectionRule(reason) == reason = Some("SQL injection attempt detected.")

\* C21: the rule filter reports every rule that matches: for a text that both
\* contains a denylist term and matches the injection pattern, the reason of
\* the BLOCKED decision names both the keyword rule and the injection rule.
C21_AllMatchesReported ==
  (Evaluated /\ BlocklistHit(last.text) /\ SqlInjectionSearch(last.text)) =>
     /\ last.decision.status = "blocked"
     /\ NamesKeywordRule(last.decision.reason)
     /\ NamesInjectionRule(last.decision.reason)

\* C26: every classification result has score 1.0 exactly when its label is
\* UNSAFE and score 0.0 otherwise, so the classifier blocks a rule-passing
\* text exactly when the label is UNSAFE, and no UNSAFE result has a score at
\* or below the threshold.
C26_ScoreFollowsLabel ==
  PassedRules =>
     LET ai_result == last.ai_result[1]
     IN  /\ ai_result.score \in {ScoreZero, ScoreOne}
         /\ ai_result.score = ScoreOne <=> ai_result.label = UNSAFE
         /\ last.decision.status = "blocked" <=> ai_result.label = UNSAFE
         /\ ~(ai_result.label = UNSAFE /\ ai_result.score <= CONFIDENCE_THRESHOLD)

\* both sides: an UNSAFE reply scored 1.0 by a call that was not served from
\* the cache
C26_Witness ==
  /\ PassedRules
  /\ ~last.hit
  /\ ClassifierReturned
  /\ last.ai_result[1] = [label |-> UNSAFE, score |-> ScoreOne]

\* the runs of the worker threads, as the last one to end left it in last
WorkerRunEnded == last.op \in {"RequestWorker.run", "LocalProcessWorker.run"}

\* how many of the signals a run emitted are finished or error
TerminalCount(emitted) ==
  Cardinality({i \in 1..Len(emitted) : emitted[i] \in {"finished", "error"}})

\* C23: every run of a worker thread emits exactly one terminal signal,
\* finished once or error once, never both and never neither.
C23_ExactlyOneTerminalSignal == WorkerRunEnded => TerminalCount(last.emitted) = 1

\* the positions of an event in the trace of a run
Positions(emitted, event) == {i \in 1..Len(emitted) : emitted[i] = event}

TerminalPositions(emitted) ==
  Positions(emitted, "finished") \cup Positions(emitted, "error")

\* the terminal signal the outcome of session.post calls for
ExpectedTerminal(o) ==
  IF o.kind = "response" /\ o.status < 400 /\ o.body # None THEN "finished" ELSE "error"

\* C22: in every run of a request worker the first progress notification is
\* emitted before the request is sent, a further one only after session.post
\* returned, and every notification before the terminal signal; the terminal
\* signal is the one the outcome of the request calls for, whether the
\* notifications have been handled by then or not.
C22_ProgressOrderedAndWithoutEffect ==
  (worker # None /\ worker[1].phase = "finished") =>
     LET e == last.emitted
         o == worker[1].attempts[Len(worker[1].attempts)]
     IN  /\ last.op = "RequestWorker.run"
         /\ e[1] = "progress_update"
         /\ Positions(e, "post") # {}
         /\ \A p \in Positions(e, "progress_update") :
              /\ p = 1 \/ \A q \in Positions(e, "post") : q < p
              /\ \A t \in TerminalPositions(e) : p < t
         /\ \A q \in Positions(e, "post") : 1 < q
         /\ \E t \in TerminalPositions(e) : e[t] = ExpectedTerminal(o)

\* a run that got a response and ended while the GUI thread had handled none
\* of its notifications
C22_Witness ==
  /\ worker # None
  /\ worker[1].phase = "finished"
  /\ Cardinality(Positions(last.emitted, "progress_update")) = 2
  /\ Len(signals) = 3
  /\ signals[1].sig = "progress_update"

\* C27: every run of RequestWorker closes its session, whichever way it ends,
\* and closes it after the terminal signal of the run was emitted.
C27_SessionClosedAfterTerminal ==
  (worker # None /\ worker[1].phase = "finished") =>
     LET e == last.emitted
     IN  /\ last.op = "RequestWorker.run"
         /\ last.text = worker[1].text
         /\ Positions(e, "session.close") = {Len(e)}
         /\ TerminalPositions(e) # {}
         /\ \A t \in TerminalPositions(e) : t < Len(e)

\* a run that ended in a read timeout
C27_Witness ==
  /\ worker # None
  /\ worker[1].phase = "finished"
  /\ worker[1].attempts[Len(worker[1].attempts)].kind = "read timeout"
  /\ last.emitted[Len(last.emitted)] = "session.close"

\* a terminal signal has been emitted and the GUI thread has not handled it
TerminalPending ==
  \E i \in 1..Len(signals) : signals[i].sig \in {"finished", "error"}

\* a validated submission whose worker still runs or whose terminal signal is
\* still to be handled
RequestInFlight ==
  \/ worker # None /\ worker[1].phase # "finished"
  \/ TerminalPending

\* C24: from a validated submission until its terminal signal has been
\* handled the input field and the submit button are disabled, and
\* self.worker is set exactly while a request is in flight.
C24_DisabledWhileInFlight ==
  /\ RequestInFlight => ~ui.enabled
  /\ worker # None <=> RequestInFlight

\* cleanup_request has run: the widgets are enabled again, the progress bar is
\* hidden and self.worker is cleared
CleanedUp == worker = None /\ ui.enabled /\ ~ui.progress

\* C25: every validated submission is eventually followed by cleanup_request:
\* the input field and the submit button are enabled again, the progress bar
\* is hidden and the worker reference is cleared.
C25_SubmissionIsCleanedUp == (worker # None) ~> CleanedUp

====
